---- MODULE Spec2Model ----
(***************************************************************************)
(* Model of Sugary/shared/Constraint.py: the constraint validators         *)
(* (TypeConstraint, DictConstraint, ListLikeConstraint, Or, Check), the    *)
(* simplification of list-like constraints and get_constraint_class.       *)
(*                                                                         *)
(* Python objects are records tagged by the field k:                       *)
(*   [k |-> "atom", t, n]     an int / str / bool / float value            *)
(*   [k |-> "type", t]        a type object (int, str, bool, list, dict)   *)
(*   [k |-> "list", e]        a list, e the sequence of its elements       *)
(*   [k |-> "tuple", e]       a tuple                                      *)
(*   [k |-> "dict", f]        a dict, f the sequence of [key, val] entries *)
(*                            in insertion order                           *)
(*   [k |-> "fn", name, argc] a function object                            *)
(*   [k |-> "or", id, o]      an Or instance, o its constraint tuple       *)
(*   [k |-> "ct", c, al]      a ListLikeConstraint.Countless instance      *)
(*   [k |-> "mt", c, n]       a ListLikeConstraint.Multiple instance       *)
(* A constraint and a value are both such objects.  Indexes are 0-based as *)
(* in the source; element i of a list x is x.e[i + 1].                     *)
(*                                                                         *)
(* The result of a call is a record tagged by k:                           *)
(*   [k |-> "False"], [k |-> "True"], [k |-> "None"]   returned as such    *)
(*   [k |-> "desc", d]                                 a truthy string     *)
(*   [k |-> "UnsatisfiedError", why, at]               an error object     *)
(*   [k |-> "InvalidConstraintError", cls]             an error object     *)
(*   [k |-> "raise", exc]          the call ended with an exception        *)
(* frame holds the local variables of a call that is followed statement by *)
(* statement (pc is its position), and [pc |-> "none"] otherwise.          *)
(* The message of an error object echoes the arguments of the call; the    *)
(* model keeps which return statement built it (why) and the index or key  *)
(* it names (at).                                                          *)
(***************************************************************************)
EXTENDS Integers, Sequences, FiniteSets, TLC

VARIABLES op, constraint, value, accept_excess, accept_scarcity, result,
          frame

vars == <<op, constraint, value, accept_excess, accept_scarcity, result,
          frame>>

-----------------------------------------------------------------------------
(* Bounds of the explored inputs *)

MaxLen == 2
MaxFixed == 3
MaxValLen == 4
MaxAtLeast == 2
MaxCount == 2
MaxSimplifyLen == 3
MaxSchemeLen == 3
MaxStepLen == 2
MaxStepValLen == 3
MaxSchemeAtLeast == 3

-----------------------------------------------------------------------------
(* Results *)

RetFalse == [k |-> "False"]
RetTrue == [k |-> "True"]
RetNone == [k |-> "None"]

UnsatisfiedError(why, at) == [k |-> "UnsatisfiedError", why |-> why, at |-> at]

InvalidConstraintError(cls) == [k |-> "InvalidConstraintError", cls |-> cls]

\* InvalidConstraintError.__init__ takes (constraint, constraint_class); a
\* call that passes one argument ends with TypeError.
InvalidConstraintError_one_argument == [k |-> "raise", exc |-> "TypeError"]

Raised(r) == r.k = "raise"

\* Python truth value of a returned object
Truthy(r) == r.k \notin {"False", "None"}

\* `not r` of a returned object
PyNot(r) == IF Truthy(r) THEN RetFalse ELSE RetTrue

-----------------------------------------------------------------------------
(* Python objects *)

Atom(t, n) == [k |-> "atom", t |-> t, n |-> n]
Type(t) == [k |-> "type", t |-> t]
List(e) == [k |-> "list", e |-> e]
Tuple(e) == [k |-> "tuple", e |-> e]
Dict(f) == [k |-> "dict", f |-> f]
Entry(key, val) == [key |-> key, val |-> val]
Fn(name, argc) == [k |-> "fn", name |-> name, argc |-> argc]
Or(id, o) == [k |-> "or", id |-> id, o |-> o]
Countless(c, al) == [k |-> "ct", c |-> c, al |-> al]
Multiple(c, n) == [k |-> "mt", c |-> c, n |-> n]

\* type(x).__name__
TypeOf(x) ==
  CASE x.k = "atom" -> x.t
    [] x.k = "type" -> "type"
    [] x.k = "fn" -> "function"
    [] x.k = "or" -> "Or"
    [] x.k = "ct" -> "Countless"
    [] x.k = "mt" -> "Multiple"
    [] OTHER -> x.k

\* Keys of the modelled dicts: string literals, and one key that is the
\* type object int
LitKeys == {"a", "b"}
TypeKeys == {"<class int>"}

DictKeys(d) == {d.f[i].key : i \in DOMAIN d.f}
DictGet(d, key) == d.f[CHOOSE i \in DOMAIN d.f : d.f[i].key = key].val

\* x == y of two objects: dicts compare by their items whatever the
\* insertion order, lists and tuples element by element, instances without
\* __eq__ (Or, Countless, Multiple, functions) by identity
RECURSIVE PyEq(_, _)
PyEq(x, y) ==
  IF x.k = "dict" /\ y.k = "dict"
  THEN /\ DictKeys(x) = DictKeys(y)
       /\ \A key \in DictKeys(x) : PyEq(DictGet(x, key), DictGet(y, key))
  ELSE IF x.k \in {"list", "tuple"} /\ y.k = x.k
  THEN /\ Len(x.e) = Len(y.e)
       /\ \A i \in DOMAIN x.e : PyEq(x.e[i], y.e[i])
  ELSE x = y

\* s[a:b] of a list, 0-based, b exclusive
Slice(s, a, b) == SubSeq(s, a + 1, b)

\* the user functions of the model: what each returns for a value
FnResult(name, v) ==
  CASE name = "no_complain" -> RetFalse
    [] name = "returns_none" -> RetNone
    [] name = "must_be_int" ->
         IF TypeOf(v) = "int" THEN RetFalse ELSE [k |-> "desc", d |-> "not an int"]
    [] OTHER -> [k |-> "desc", d |-> "never"]

-----------------------------------------------------------------------------
(* Well-formedness of constraints and get_constraint_class *)

RECURSIVE get_constraint_class(_)
RECURSIVE is_valid_dt_constraint(_)
RECURSIVE is_valid_lk_constraint(_)
RECURSIVE is_valid_or_constraint(_)
RECURSIVE Or_is_constraint_valid(_)
RECURSIVE TypeConstraint_static_validate(_, _)
RECURSIVE DictConstraint_static_validate(_, _, _, _)
RECURSIVE ListLikeConstraint_static_validate(_, _)
RECURSIVE Or_validate(_, _)
RECURSIVE Check_static_validate(_, _)
RECURSIVE Countless_validate(_, _)

\* TypeConstraint.is_valid_type_constraint: type(constraint) == type
is_valid_type_constraint(c) == TypeOf(c) = "type"

\* Check.is_valid_check_constraint: a function object of one argument
is_valid_check_constraint(c) == TypeOf(c) = "function" /\ c.argc = 1

\* a bug that takes every list and tuple for a dictionary constraint too
is_valid_dt_constraint_any_container(c) ==
  \/ TypeOf(c) \in {"list", "tuple"}
  \/ /\ TypeOf(c) = "dict"
     /\ \A i \in DOMAIN c.f :
          /\ c.f[i].key \notin TypeKeys
          /\ get_constraint_class(c.f[i].val) # "None"

\* DictConstraint.is_valid_dt_constraint
is_valid_dt_constraint(c) ==
  /\ TypeOf(c) = "dict"
  /\ \A i \in DOMAIN c.f :
       /\ c.f[i].key \notin TypeKeys
       /\ get_constraint_class(c.f[i].val) # "None"

\* a bug that accepts whatever a quantifier holds
Quantifier_is_constraint_valid_anything(c) == TRUE

\* Countless.is_constraint_valid and Multiple.is_constraint_valid
Quantifier_is_constraint_valid(c) == get_constraint_class(c.c) # "None"

\* ListLikeConstraint.is_valid_lk_constraint
is_valid_lk_constraint(c) ==
  /\ TypeOf(c) \in {"list", "tuple"}
  /\ \A i \in DOMAIN c.e :
       \/ get_constraint_class(c.e[i]) # "None"
       \/ /\ TypeOf(c.e[i]) \in {"Countless", "Multiple"}
          /\ Quantifier_is_constraint_valid(c.e[i])

\* Or.is_constraint_valid: self.constraint is the tuple of the options
Or_is_constraint_valid(self) ==
  \A i \in DOMAIN self.o : get_constraint_class(self.o[i]) # "None"

\* Or.is_valid_or_constraint
is_valid_or_constraint(c) == TypeOf(c) = "Or" /\ Or_is_constraint_valid(c)

\* a bug that forgets the last branch, the check constraints
get_constraint_class_without_check(c) ==
  IF is_valid_type_constraint(c) THEN "TypeConstraint"
  ELSE IF is_valid_dt_constraint(c) THEN "DictConstraint"
  ELSE IF is_valid_lk_constraint(c) THEN "ListLikeConstraint"
  ELSE IF is_valid_or_constraint(c) THEN "Or"
  ELSE "None"

\* get_constraint_class: the name of the class that handles the constraint
get_constraint_class(c) ==
  IF is_valid_type_constraint(c) THEN "TypeConstraint"
  ELSE IF is_valid_dt_constraint(c) THEN "DictConstraint"
  ELSE IF is_valid_lk_constraint(c) THEN "ListLikeConstraint"
  ELSE IF is_valid_or_constraint(c) THEN "Or"
  ELSE IF is_valid_check_constraint(c) THEN "Check"
  ELSE "None"

-----------------------------------------------------------------------------
(* ListLikeConstraint.simplify_constraint *)

Copies(c, n) == IF n <= 0 THEN <<>> ELSE [j \in 1..n |-> c]

RECURSIVE expand_mt(_)

\* a bug that expands a Multiple into one copy too many
expand_mt_one_more(e) ==
  IF e = <<>> THEN <<>>
  ELSE (IF TypeOf(Head(e)) = "Multiple"
        THEN Copies(Head(e).c, Head(e).n + 1)
        ELSE <<Head(e)>>) \o expand_mt(Tail(e))

\* expand_mt: every Multiple becomes count copies of its constraint
expand_mt(e) ==
  IF e = <<>> THEN <<>>
  ELSE (IF TypeOf(Head(e)) = "Multiple"
        THEN Copies(Head(e).c, Head(e).n)
        ELSE <<Head(e)>>) \o expand_mt(Tail(e))

\* the loop `for s_i in range(ct_i - 1, -1, -1)` of get_ct_group_info:
\* g is [nc |-> new_countless, group_start |-> ...]
RECURSIVE find_group_start(_, _, _)

\* a bug that never scans to the left of the Countless
find_group_start_no_scan(e, g, s_i) == [g EXCEPT !.group_start = s_i + 1]

find_group_start(e, g, s_i) ==
  IF s_i < 0 THEN g
  ELSE IF PyEq(e[s_i + 1], g.nc.c)
       THEN find_group_start(e, [g EXCEPT !.nc.al = @ + 1], s_i - 1)
       ELSE [g EXCEPT !.group_start = s_i + 1]

\* a bug that leaves the list as it is
RemoveFirst_nothing(s, x) == s

\* list.remove(x): drops the first occurrence
RemoveFirst(s, x) ==
  LET i == CHOOSE j \in DOMAIN s : s[j] = x /\ \A h \in 1..(j - 1) : s[h] # x
  IN  SubSeq(s, 1, i - 1) \o SubSeq(s, i + 1, Len(s))

\* the loop `for s_i in range(ct_i + 1, len(constraint))`:
\* g is [nc, group_end, ct_indexes, raised]; raised records a list.remove of
\* an index that is not in ct_indexes (ValueError)
RECURSIVE find_group_end(_, _, _)

\* a bug that counts an absorbed Countless as one element
find_group_end_countless_as_one(e, g, s_i) ==
  IF s_i >= Len(e) \/ g.raised THEN g
  ELSE IF TypeOf(e[s_i + 1]) = "Countless" /\ PyEq(e[s_i + 1].c, g.nc.c)
  THEN find_group_end(e, [g EXCEPT !.nc.al = @ + 1,
                                   !.ct_indexes = RemoveFirst(@, s_i)],
                      s_i + 1)
  ELSE IF PyEq(e[s_i + 1], g.nc.c)
  THEN find_group_end(e, [g EXCEPT !.nc.al = @ + 1], s_i + 1)
  ELSE [g EXCEPT !.group_end = s_i - 1]

find_group_end(e, g, s_i) ==
  IF s_i >= Len(e) \/ g.raised THEN g
  ELSE LET c == e[s_i + 1] IN
       IF TypeOf(c) = "Countless" /\ PyEq(c.c, g.nc.c)
       THEN IF \E j \in DOMAIN g.ct_indexes : g.ct_indexes[j] = s_i
            THEN find_group_end(e, [g EXCEPT !.nc.al = @ + c.al,
                                             !.ct_indexes = RemoveFirst(@, s_i)],
                                s_i + 1)
            ELSE [g EXCEPT !.nc.al = @ + c.al, !.raised = TRUE]
       ELSE IF PyEq(c, g.nc.c)
       THEN find_group_end(e, [g EXCEPT !.nc.al = @ + 1], s_i + 1)
       ELSE [g EXCEPT !.group_end = s_i - 1]

\* the loop `for ct_i in ct_indexes` of get_ct_group_info; p is the position
\* of the list iterator in ct_indexes, which the loop body shortens
RECURSIVE ct_group_loop(_, _, _, _)

\* result.append((group_start, group_end, new_countless)) and the next ct_i;
\* gs is the state after the first inner loop, ge after the second
ct_group_append(e, p, res, gs, ge) ==
  IF ge.raised THEN [groups |-> res, raised |-> TRUE]
  ELSE ct_group_loop(e, ge.ct_indexes, p + 1,
                     Append(res, [start |-> gs.group_start,
                                  end |-> ge.group_end,
                                  ct |-> ge.nc,
                                  of |-> ge.ct_indexes[p + 1]]))

\* the second inner loop, from the state gs the first one left
ct_group_end(e, ct_indexes, p, res, gs) ==
  ct_group_append(e, p, res, gs,
                  find_group_end(e, [nc |-> gs.nc, group_end |-> Len(e) - 1,
                                     ct_indexes |-> ct_indexes,
                                     raised |-> FALSE],
                                 ct_indexes[p + 1] + 1))

ct_group_loop(e, ct_indexes, p, res) ==
  IF p >= Len(ct_indexes) THEN [groups |-> res, raised |-> FALSE]
  ELSE ct_group_end(e, ct_indexes, p, res,
                    find_group_start(
                      e,
                      [nc |-> Countless(e[ct_indexes[p + 1] + 1].c,
                                        e[ct_indexes[p + 1] + 1].al),
                       group_start |-> 0],
                      ct_indexes[p + 1] - 1))

get_ct_group_info(e) ==
  ct_group_loop(e,
                SelectSeq([i \in 1..Len(e) |-> i - 1],
                          LAMBDA i : TypeOf(e[i + 1]) = "Countless"),
                0, <<>>)

\* the loop `for start, end, ct in ct_groups` that rebuilds the constraint
RECURSIVE rebuild(_, _, _, _)

\* a bug that resumes at the last element of the group instead of after it
rebuild_from_group_end(expanded, groups, new_constraint, last_end) ==
  IF groups = <<>>
  THEN new_constraint \o Slice(expanded, last_end, Len(expanded))
  ELSE rebuild(expanded, Tail(groups),
               new_constraint \o Slice(expanded, last_end, Head(groups).start)
                              \o <<Head(groups).ct>>,
               Head(groups).end)

rebuild(expanded, groups, new_constraint, last_end) ==
  IF groups = <<>>
  THEN new_constraint \o Slice(expanded, last_end, Len(expanded))
  ELSE rebuild(expanded, Tail(groups),
               new_constraint \o Slice(expanded, last_end, Head(groups).start)
                              \o <<Head(groups).ct>>,
               Head(groups).end + 1)

\* the statements of simplify_constraint after get_ct_group_info
simplify_groups(c, expanded, info) ==
  IF info.raised THEN [k |-> "raise", exc |-> "ValueError"]
  ELSE [k |-> c.k, e |-> rebuild(expanded, info.groups, <<>>, 0)]

\* the statements of simplify_constraint after expand_mt
simplify_expanded(c, expanded) ==
  simplify_groups(c, expanded, get_ct_group_info(expanded))

\* simplify_constraint: None for an invalid constraint, else a list or tuple
\* (the type of the argument) without Multiple and with merged Countless
simplify_constraint(c) ==
  IF ~is_valid_lk_constraint(c) THEN RetNone
  ELSE simplify_expanded(c, expand_mt(c.e))

\* a bug that lets new_countless name constraint[ct_i] itself
new_countless_ref_same_object(ct_i) == ct_i

\* the object that new_countless names in the turn of ct_i: the position in
\* `constraint` of the element it is, or -1 for an object that is no element
\* of it (the Countless constructed at the top of the turn)
new_countless_ref(ct_i) == -1

\* the elements of the list given to get_ct_group_info once it has returned:
\* its only assignments to an attribute are `new_countless.at_least += ...`,
\* which land on the object new_countless names
expanded_after(e, groups) ==
  [i \in 1..Len(e) |->
     IF \E g \in DOMAIN groups : new_countless_ref(groups[g].of) = i - 1
     THEN groups[CHOOSE g \in DOMAIN groups :
                   new_countless_ref(groups[g].of) = i - 1].ct
     ELSE e[i]]

\* the Countless objects of a list, in order
Countlesses(e) == SelectSeq(e, LAMBDA x : TypeOf(x) = "Countless")

\* the argument of simplify_constraint once it has returned: expand_mt
\* copies references, so the Countless objects of `expanded` are those of
\* the argument, in the same order
constraint_after_simplify(c) ==
  IF ~is_valid_lk_constraint(c) THEN c
  ELSE [c EXCEPT !.e =
          [i \in 1..Len(c.e) |->
             IF TypeOf(c.e[i]) = "Countless"
             THEN Countlesses(
                    expanded_after(expand_mt(c.e),
                                   get_ct_group_info(expand_mt(c.e)).groups)
                  )[Len(Countlesses(SubSeq(c.e, 1, i)))]
             ELSE c.e[i]]]

-----------------------------------------------------------------------------
(* The validators *)

\* a bug that accepts instances of subclasses: isinstance(value, constraint),
\* bool being a subclass of int
TypeConstraint_static_validate_isinstance(c, v) ==
  IF ~is_valid_type_constraint(c) THEN InvalidConstraintError("TypeConstraint")
  ELSE IF TypeOf(v) # c.t /\ ~(TypeOf(v) = "bool" /\ c.t = "int")
  THEN UnsatisfiedError("type", 0)
  ELSE RetFalse

\* TypeConstraint.static_validate: type(value) != constraint and Unsatisfied
TypeConstraint_static_validate(c, v) ==
  IF ~is_valid_type_constraint(c) THEN InvalidConstraintError("TypeConstraint")
  ELSE IF TypeOf(v) # c.t THEN UnsatisfiedError("type", 0)
  ELSE RetFalse

\* the calls Check.static_validate makes to the function, each as the tuple
\* of its arguments: none for an invalid constraint, else constraint(value)
Check_invocations(c, v) ==
  IF ~is_valid_check_constraint(c) THEN <<>> ELSE <<(<<v>>)>>

\* a bug that takes only False for "no complaint"
Check_static_validate_only_false(c, v) ==
  IF ~is_valid_check_constraint(c) THEN InvalidConstraintError_one_argument
  ELSE IF FnResult(c.name, v) = RetFalse THEN RetFalse
  ELSE [k |-> "UnsatisfiedError", why |-> "check", at |-> 0, err |-> "None"]

\* Check.static_validate: err = constraint(value); err and Unsatisfied(err)
Check_static_validate(c, v) ==
  IF ~is_valid_check_constraint(c) THEN InvalidConstraintError_one_argument
  ELSE LET err == FnResult(c.name, v)
       IN  IF Truthy(err) THEN [k |-> "UnsatisfiedError", why |-> "check",
                                at |-> 0, err |-> err.d]
           ELSE err

\* Check.validate(self, value) reads self.constraint; DictConstraint calls it
\* with the function itself as self, which has no such attribute
Check_validate(self, v) ==
  IF self.k = "check" THEN Check_static_validate(self.constraint, v)
  ELSE [k |-> "raise", exc |-> "AttributeError"]

\* the if/elif chain of Or.validate for one option; an option that no branch
\* takes leaves the loop going
Or_option(c, v) ==
  IF is_valid_type_constraint(c) THEN TypeConstraint_static_validate(c, v)
  ELSE IF is_valid_lk_constraint(c) THEN ListLikeConstraint_static_validate(c, v)
  ELSE IF is_valid_dt_constraint(c)
    THEN DictConstraint_static_validate(c, v, TRUE, FALSE)
  ELSE IF is_valid_or_constraint(c) THEN Or_validate(c, v)
  ELSE IF is_valid_check_constraint(c) THEN Check_static_validate(c, v)
  ELSE RetTrue

\* the loop `for c in self.constraint` of Or.validate
RECURSIVE Or_loop(_, _, _)

\* `if not <result of the option>: return False`, else the next option
Or_tested(self, v, i, r) ==
  IF Raised(r) THEN r
  ELSE IF ~Truthy(r) THEN RetFalse
  ELSE Or_loop(self, v, i + 1)

Or_loop(self, v, i) ==
  IF i >= Len(self.o) THEN UnsatisfiedError("no_option", Len(self.o))
  ELSE Or_tested(self, v, i, Or_option(self.o[i + 1], v))

\* Or.validate
Or_validate(self, v) ==
  IF ~Or_is_constraint_valid(self) THEN InvalidConstraintError_one_argument
  ELSE Or_loop(self, v, 0)

\* `return not <result>`
ReturnNot(r) == IF Raised(r) THEN r ELSE PyNot(r)

\* Countless.validate: `not` of the result of the validator of self.constraint
Countless_validate(self, v) ==
  IF is_valid_type_constraint(self.c)
    THEN ReturnNot(TypeConstraint_static_validate(self.c, v))
  ELSE IF is_valid_lk_constraint(self.c)
    THEN ReturnNot(ListLikeConstraint_static_validate(self.c, v))
  ELSE IF is_valid_dt_constraint(self.c)
    THEN ReturnNot(DictConstraint_static_validate(self.c, v, TRUE, FALSE))
  ELSE IF is_valid_or_constraint(self.c)
    THEN ReturnNot(Or_validate(self.c, v))
  ELSE IF is_valid_check_constraint(self.c)
    THEN ReturnNot(Check_static_validate(self.c, v))
  ELSE RetFalse

\* a bug that hands the strictest flags to the validator of a nested dict
Dict_field_nested_strict(ck, vk) ==
  IF is_valid_type_constraint(ck) THEN TypeConstraint_static_validate(ck, vk)
  ELSE IF is_valid_dt_constraint(ck)
    THEN DictConstraint_static_validate(ck, vk, FALSE, FALSE)
  ELSE IF is_valid_lk_constraint(ck)
    THEN ListLikeConstraint_static_validate(ck, vk)
  ELSE IF is_valid_or_constraint(ck) THEN Or_validate(ck, vk)
  ELSE IF is_valid_check_constraint(ck) THEN Check_validate(ck, vk)
  ELSE RetFalse

\* the if/elif chain of DictConstraint.static_validate for one key; a
\* constraint that no branch takes leaves the loop going
Dict_field(ck, vk) ==
  IF is_valid_type_constraint(ck) THEN TypeConstraint_static_validate(ck, vk)
  ELSE IF is_valid_dt_constraint(ck)
    THEN DictConstraint_static_validate(ck, vk, TRUE, FALSE)
  ELSE IF is_valid_lk_constraint(ck)
    THEN ListLikeConstraint_static_validate(ck, vk)
  ELSE IF is_valid_or_constraint(ck) THEN Or_validate(ck, vk)
  ELSE IF is_valid_check_constraint(ck) THEN Check_validate(ck, vk)
  ELSE RetFalse

\* the loop `for key in constraint` of DictConstraint.static_validate and
\* the return after it; value_keys is the set of the keys not yet removed
RECURSIVE Dict_loop(_, _, _, _, _, _)

\* `if err: return err`, else the next key
Dict_checked(c, v, ex, sc, i, value_keys, err) ==
  IF Raised(err) \/ Truthy(err) THEN err
  ELSE Dict_loop(c, v, ex, sc, i + 1, value_keys)

Dict_loop(c, v, ex, sc, i, value_keys) ==
  IF i >= Len(c.f)
  THEN IF value_keys # {} /\ ~ex THEN UnsatisfiedError("extra_keys", 0)
       ELSE RetFalse
  ELSE IF c.f[i + 1].key \in value_keys
  THEN Dict_checked(c, v, ex, sc, i, value_keys \ {c.f[i + 1].key},
                    Dict_field(c.f[i + 1].val, DictGet(v, c.f[i + 1].key)))
  ELSE IF ~sc THEN UnsatisfiedError("missing_key", i)
  ELSE Dict_loop(c, v, ex, sc, i + 1, value_keys)

\* a bug that removes the checked keys from the value itself
keys_removed_from_value_itself(c, v) == DictKeys(c) \cap DictKeys(v)

\* the keys that `value_keys.remove(key)` takes out of the dict `value`
\* itself: none, value_keys being the list that list(value.keys()) built
keys_removed_from_value(c, v) == {}

\* the value once DictConstraint.static_validate has returned
value_after_dict_validate(c, v) ==
  IF is_valid_dt_constraint(c) /\ TypeOf(v) = "dict"
  THEN [v EXCEPT !.f = SelectSeq(@, LAMBDA en :
                                      en.key \notin keys_removed_from_value(c, v))]
  ELSE v

\* a bug that looks at the value before the constraint
DictConstraint_static_validate_value_first(c, v, ex, sc) ==
  IF TypeOf(v) # "dict" THEN UnsatisfiedError("not_dict", 0)
  ELSE IF ~is_valid_dt_constraint(c) THEN InvalidConstraintError("DictConstraint")
  ELSE Dict_loop(c, v, ex, sc, 0, DictKeys(v))

\* DictConstraint.static_validate(constraint, value, accept_excess,
\* accept_scarcity)
DictConstraint_static_validate(c, v, ex, sc) ==
  IF ~is_valid_dt_constraint(c) THEN InvalidConstraintError("DictConstraint")
  ELSE IF TypeOf(v) # "dict" THEN UnsatisfiedError("not_dict", 0)
  ELSE Dict_loop(c, v, ex, sc, 0, DictKeys(v))

\* the `while True` loop of a Countless slot: the offset after the loop, or
\* the error it returns
RECURSIVE Countless_loop(_, _, _, _, _)

\* one turn of the loop, matched being c.validate(value[value_i]), or False
\* when value_i is out of range
Countless_turn(c, v, i, offset, same_type_count, matched) ==
  IF Raised(matched) THEN matched
  ELSE IF ~Truthy(matched)
  THEN IF same_type_count < c.al
       THEN UnsatisfiedError("countless_not_enough", i)
       ELSE [k |-> "break", offset |-> offset - 1]
  ELSE Countless_loop(c, v, i, offset + 1, same_type_count + 1)

Countless_loop(c, v, i, offset, same_type_count) ==
  Countless_turn(c, v, i, offset, same_type_count,
                 IF i + offset >= Len(v.e) THEN RetFalse
                 ELSE Countless_validate(c, v.e[i + offset + 1]))

\* a bug that forgets the values left over after the last slot
ListLike_return_ignoring_rest(s, v, offset) == RetTrue

\* the statements of ListLikeConstraint.static_validate after its loop
ListLike_return(s, v, offset) ==
  IF Len(s.e) + offset < Len(v.e) THEN UnsatisfiedError("too_much", 0)
  ELSE RetTrue

\* the loop `for i, c in enumerate(s_constraint)` of
\* ListLikeConstraint.static_validate
RECURSIVE ListLike_loop(_, _, _, _)

\* `if err: return err`, else the next slot
ListLike_checked(s, v, i, offset, err) ==
  IF Raised(err) \/ Truthy(err) THEN err
  ELSE ListLike_loop(s, v, i + 1, offset)

\* after the loop of a Countless slot: the error, or the next slot
ListLike_after_countless(s, v, i, r) ==
  IF r.k = "break" THEN ListLike_loop(s, v, i + 1, r.offset) ELSE r

\* the if/elif chain for the slot i, c being s_constraint[i] and vi being
\* value[value_i]
ListLike_slot(s, v, i, offset, c, vi) ==
  IF is_valid_type_constraint(c)
    THEN ListLike_checked(s, v, i, offset, TypeConstraint_static_validate(c, vi))
  ELSE IF is_valid_lk_constraint(c)
    THEN ListLike_checked(s, v, i, offset,
                          ListLikeConstraint_static_validate(c, vi))
  ELSE IF is_valid_dt_constraint(c)
    THEN ListLike_checked(s, v, i, offset,
                          DictConstraint_static_validate(c, vi, TRUE, FALSE))
  ELSE IF is_valid_or_constraint(c)
    THEN ListLike_checked(s, v, i, offset, Or_validate(c, vi))
  ELSE IF is_valid_check_constraint(c)
    THEN ListLike_checked(s, v, i, offset, Check_static_validate(c, vi))
  ELSE IF TypeOf(c) = "Countless"
    THEN ListLike_after_countless(s, v, i, Countless_loop(c, v, i, offset, 0))
  ELSE ListLike_loop(s, v, i + 1, offset)

ListLike_loop(s, v, i, offset) ==
  IF i >= Len(s.e) THEN ListLike_return(s, v, offset)
  ELSE IF i + offset >= Len(v.e) THEN UnsatisfiedError("not_enough", i)
  ELSE ListLike_slot(s, v, i, offset, s.e[i + 1], v.e[i + offset + 1])

\* ListLikeConstraint.static_validate after s_constraint is computed
ListLike_simplified(s_constraint, v) ==
  IF Raised(s_constraint) THEN s_constraint
  ELSE IF s_constraint = RetNone
  THEN InvalidConstraintError("ListLikeConstraint")
  ELSE IF TypeOf(v) \notin {"list", "tuple"}
  THEN UnsatisfiedError("not_list_like", 0)
  ELSE ListLike_loop(s_constraint, v, 0, 0)

\* ListLikeConstraint.static_validate
ListLikeConstraint_static_validate(c, v) ==
  ListLike_simplified(simplify_constraint(c), v)

-----------------------------------------------------------------------------
(* The legacy Scheme module: ListLikeConstraint.simplify_constraint         *)

RECURSIVE Scheme_is_valid_lk_constraint(_)

\* Scheme DictConstraint.is_valid_dt_constraint: the elif branches hang
\* under the test of a list-like value and are never taken
Scheme_is_valid_dt_constraint(c) ==
  /\ TypeOf(c) = "dict"
  /\ \A i \in DOMAIN c.f :
       /\ c.f[i].key \notin TypeKeys
       /\ TypeOf(c.f[i].val) \in {"list", "tuple"}
            => Scheme_is_valid_lk_constraint(c.f[i].val)

\* Scheme ListLikeConstraint.is_valid_lk_constraint
Scheme_is_valid_lk_constraint(c) ==
  /\ TypeOf(c) \in {"list", "tuple"}
  /\ \A i \in DOMAIN c.e :
       IF TypeOf(c.e[i]) \in {"list", "tuple"}
       THEN Scheme_is_valid_lk_constraint(c.e[i])
       ELSE IF TypeOf(c.e[i]) = "dict"
       THEN Scheme_is_valid_dt_constraint(c.e[i])
       ELSE TypeOf(c.e[i]) \in {"type", "Countless", "Multiple"}

\* expand_mt of the Scheme simplify_constraint
RECURSIVE Scheme_expand_mt(_)
Scheme_expand_mt(e) ==
  IF e = <<>> THEN <<>>
  ELSE (IF TypeOf(Head(e)) = "Multiple"
        THEN Copies(Head(e).c, Head(e).n)
        ELSE <<Head(e)>>) \o Scheme_expand_mt(Tail(e))

\* `for j in range(ct_i - 1, -1, -1)` of merge_ct_with_types; st holds
\* new_ct.at_least and i_to
RECURSIVE Scheme_scan_left(_, _, _, _)
Scheme_scan_left(e, expected_type, j, st) ==
  IF j < 0 THEN st
  ELSE IF ~PyEq(e[j + 1], expected_type) THEN [st EXCEPT !.i_to = j + 1]
  ELSE IF j = 0 THEN [at_least |-> st.at_least + 1, i_to |-> 0]
  ELSE Scheme_scan_left(e, expected_type, j - 1,
                        [st EXCEPT !.at_least = @ + 1])

\* `for j in range(ct_i + 1, len(structure))` of merge_ct_with_types; st
\* holds new_ct.at_least and new_i_from
RECURSIVE Scheme_scan_right(_, _, _, _)
Scheme_scan_right(e, expected_type, j, st) ==
  IF j >= Len(e) THEN st
  ELSE IF ~PyEq(e[j + 1], expected_type) THEN [st EXCEPT !.new_i_from = j]
  ELSE IF j = Len(e) - 1
  THEN [at_least |-> st.at_least + 1, new_i_from |-> j]
  ELSE Scheme_scan_right(e, expected_type, j + 1,
                         [st EXCEPT !.at_least = @ + 1])

\* the loop `for ct_i in ct_indexes` of merge_ct_with_types and the return
\* after it
RECURSIVE Scheme_ct_loop(_, _, _, _)

\* `s = [*s, *structure[i_from: i_to], new_ct]` and `i_from = new_i_from`
Scheme_ct_merged(e, ct_indexes, s, i_from, i_to, right) ==
  Scheme_ct_loop(e, Tail(ct_indexes),
                 s \o Slice(e, i_from, i_to)
                   \o <<Countless(e[Head(ct_indexes) + 1].c, right.at_least)>>,
                 right.new_i_from)

\* the scan to the right, after the scan to the left gave left
Scheme_ct_left(e, ct_indexes, s, i_from, left) ==
  Scheme_ct_merged(e, ct_indexes, s, i_from, left.i_to,
                   Scheme_scan_right(e, e[Head(ct_indexes) + 1].c,
                                     Head(ct_indexes) + 1,
                                     [at_least |-> left.at_least,
                                      new_i_from |-> i_from]))

Scheme_ct_loop(e, ct_indexes, s, i_from) ==
  IF ct_indexes = <<>> THEN s \o Slice(e, i_from, Len(e))
  ELSE Scheme_ct_left(e, ct_indexes, s, i_from,
                      Scheme_scan_left(e, e[Head(ct_indexes) + 1].c,
                                       Head(ct_indexes) - 1,
                                       [at_least |-> e[Head(ct_indexes) + 1].al,
                                        i_to |-> i_from]))

\* the positions of the Countless of the pattern, in ascending order
RECURSIVE Scheme_ct_indexes(_, _)
Scheme_ct_indexes(e, i) ==
  IF i >= Len(e) THEN <<>>
  ELSE (IF TypeOf(e[i + 1]) = "Countless" THEN <<i>> ELSE <<>>)
         \o Scheme_ct_indexes(e, i + 1)

\* merge_ct_with_types of the Scheme simplify_constraint
Scheme_merge_ct_with_types(e) ==
  Scheme_ct_loop(e, Scheme_ct_indexes(e, 0), <<>>, 0)

\* one turn of the loop of merge_cts; st holds s, recent_countless and
\* new_countless
Scheme_merge_cts_turn(st, i) ==
  IF TypeOf(i) # "Countless"
  THEN [s |-> (IF st.new_countless.k # "None"
               THEN Append(st.s, st.new_countless) ELSE st.s) \o <<i>>,
        recent_countless |-> RetNone, new_countless |-> RetNone]
  ELSE IF st.recent_countless.k # "None"
  THEN IF PyEq(st.recent_countless.c, i.c)
       THEN IF st.new_countless.k = "None"
            THEN [st EXCEPT !.new_countless =
                              Countless(i.c, st.recent_countless.al + i.al)]
            ELSE [st EXCEPT !.new_countless =
                              Countless(st.new_countless.c,
                                        st.new_countless.al + i.al)]
       ELSE IF st.new_countless.k # "None"
            THEN [st EXCEPT !.s = Append(@, st.new_countless),
                            !.new_countless = RetNone]
            ELSE [st EXCEPT !.s = @ \o <<st.recent_countless, i>>,
                            !.recent_countless = RetNone]
  ELSE [st EXCEPT !.recent_countless = i]

\* the loop `for i in structure` of merge_cts
RECURSIVE Scheme_merge_cts_loop(_, _, _)
Scheme_merge_cts_loop(e, h, st) ==
  IF h >= Len(e) THEN st
  ELSE Scheme_merge_cts_loop(e, h + 1, Scheme_merge_cts_turn(st, e[h + 1]))

\* merge_cts of the Scheme simplify_constraint: it returns s
Scheme_merge_cts(e) ==
  Scheme_merge_cts_loop(e, 0, [s |-> <<>>, recent_countless |-> RetNone,
                               new_countless |-> RetNone]).s

\* Scheme ListLikeConstraint.simplify_constraint
Scheme_simplify_constraint(c) ==
  IF ~Scheme_is_valid_lk_constraint(c) THEN RetNone
  ELSE [k |-> c.k,
        e |-> Scheme_merge_cts(Scheme_merge_ct_with_types(Scheme_expand_mt(c.e)))]

-----------------------------------------------------------------------------
(* Calls followed statement by statement                                   *)

\* no call is being followed
NoFrame == [pc |-> "none"]

\* the outcome of a step: the call goes on with the locals f
Running(name, f) == [op |-> name, result |-> RetNone, frame |-> f]

\* the outcome of a step: the call named name returns (or raises) r
Returned(name, f, r) ==
  [op |-> name, result |-> r, frame |-> [f EXCEPT !.pc = "returned"]]

\* the locals of ListLikeConstraint.static_validate at its loop: s is
\* s_constraint; reads and matched are the indexes at which value was read
\* and at which it satisfied the slot, turns the iterations of the running
\* `while True` and loop_from the value_i it started at
MatchLocals(s_constraint) ==
  [call |-> "match", pc |-> "slot", s |-> s_constraint, i |-> 0, offset |-> 0,
   same_type_count |-> 0, reads |-> {}, matched |-> {}, turns |-> 0,
   loop_from |-> 0]

\* ListLikeConstraint.static_validate from the return of simplify_constraint
\* up to `offset = 0`
Match_begin(s_constraint, v) ==
  IF s_constraint = RetNone
  THEN Returned("ListLikeConstraint.static_validate", MatchLocals(<<>>),
                InvalidConstraintError("ListLikeConstraint"))
  ELSE IF TypeOf(v) \notin {"list", "tuple"}
  THEN Returned("ListLikeConstraint.static_validate", MatchLocals(<<>>),
                UnsatisfiedError("not_list_like", 0))
  ELSE Running("matching", MatchLocals(s_constraint))

\* the five branches of the chain that call a validator with value[value_i]
Match_fixed(c, vi) ==
  IF is_valid_type_constraint(c) THEN TypeConstraint_static_validate(c, vi)
  ELSE IF is_valid_lk_constraint(c)
    THEN ListLikeConstraint_static_validate(c, vi)
  ELSE IF is_valid_dt_constraint(c)
    THEN DictConstraint_static_validate(c, vi, TRUE, FALSE)
  ELSE IF is_valid_or_constraint(c) THEN Or_validate(c, vi)
  ELSE Check_static_validate(c, vi)

\* `if err: return err`, else the next turn of the for loop
Match_checked(f, value_i, err) ==
  IF Raised(err) \/ Truthy(err)
  THEN Returned("ListLikeConstraint.static_validate",
                [f EXCEPT !.reads = @ \cup {value_i}], err)
  ELSE Running("matching", [f EXCEPT !.i = @ + 1,
                                     !.reads = @ \cup {value_i},
                                     !.matched = @ \cup {value_i}])

\* one turn of `for i, c in enumerate(s_constraint)` up to the `while True`
\* of a Countless, or the statements after the loop
Match_slot(f, v) ==
  IF f.i >= Len(f.s.e)
  THEN Returned("ListLikeConstraint.static_validate", f,
                ListLike_return(f.s, v, f.offset))
  ELSE IF f.i + f.offset >= Len(v.e)
  THEN Returned("ListLikeConstraint.static_validate", f,
                UnsatisfiedError("not_enough", f.i))
  ELSE IF get_constraint_class(f.s.e[f.i + 1]) # "None"
  THEN Match_checked(f, f.i + f.offset,
                     Match_fixed(f.s.e[f.i + 1], v.e[f.i + f.offset + 1]))
  ELSE IF TypeOf(f.s.e[f.i + 1]) = "Countless"
  THEN Running("matching", [f EXCEPT !.pc = "while", !.same_type_count = 0,
                                     !.turns = 0,
                                     !.loop_from = f.i + f.offset])
  ELSE Running("matching", [f EXCEPT !.i = @ + 1])

\* a bug that does not give back the position the loop stopped at
Match_while_stop_keeps_offset(f, c) ==
  IF f.same_type_count < c.al
  THEN Returned("ListLikeConstraint.static_validate", f,
                UnsatisfiedError("countless_not_enough", f.i))
  ELSE Running("matching", [f EXCEPT !.pc = "slot", !.i = @ + 1])

\* the branch of the `while True` that ends it: the error, or
\* `offset -= 1; break` and the next turn of the for loop
Match_while_stop(f, c) ==
  IF f.same_type_count < c.al
  THEN Returned("ListLikeConstraint.static_validate", f,
                UnsatisfiedError("countless_not_enough", f.i))
  ELSE Running("matching", [f EXCEPT !.offset = @ - 1, !.pc = "slot",
                                     !.i = @ + 1])

\* the turn of the `while True` that read value[value_i], ok being
\* c.validate(value[value_i])
Match_while_read(f, c, value_i, ok) ==
  IF Raised(ok)
  THEN Returned("ListLikeConstraint.static_validate",
                [f EXCEPT !.reads = @ \cup {value_i}], ok)
  ELSE IF ~Truthy(ok)
  THEN Match_while_stop([f EXCEPT !.reads = @ \cup {value_i}], c)
  ELSE Running("matching", [f EXCEPT !.same_type_count = @ + 1,
                                     !.offset = @ + 1,
                                     !.reads = @ \cup {value_i},
                                     !.matched = @ \cup {value_i}])

\* one turn of the `while True` of a Countless
Match_while_turn(f, v) ==
  IF f.i + f.offset >= Len(v.e) THEN Match_while_stop(f, f.s.e[f.i + 1])
  ELSE Match_while_read(f, f.s.e[f.i + 1], f.i + f.offset,
                        Countless_validate(f.s.e[f.i + 1],
                                           v.e[f.i + f.offset + 1]))

\* the locals of get_ct_group_info at its loop over ct_indexes: p is the
\* position of the list iterator, grouped the positions of the Countless
\* that lie in the groups found so far, turns the turns of the loop; caller
\* is who called simplify_constraint, a client or static_validate
ScanLocals(expanded, caller) ==
  [call |-> "scan", pc |-> "scan", caller |-> caller, expanded |-> expanded,
   ct_indexes |-> SelectSeq([i \in 1..Len(expanded) |-> i - 1],
                            LAMBDA i : TypeOf(expanded[i + 1]) = "Countless"),
   p |-> 0, result |-> <<>>, grouped |-> <<>>, turns |-> 0]

\* simplify_constraint returns s_constraint: to the client, or to
\* static_validate, which goes on with it
Scan_return(f, s_constraint, v) ==
  IF f.caller = "static_validate" THEN Match_begin(s_constraint, v)
  ELSE Returned("simplify_constraint", f, s_constraint)

\* an exception leaves simplify_constraint, and static_validate with it
Scan_raise(f, exc) ==
  Returned(IF f.caller = "static_validate"
           THEN "ListLikeConstraint.static_validate"
           ELSE "simplify_constraint", f, [k |-> "raise", exc |-> exc])

\* the scan goes on
Scan_running(f) ==
  Running(IF f.caller = "static_validate" THEN "matching" ELSE "scanning", f)

\* simplify_constraint up to the loop of get_ct_group_info
Scan_begin(c, v, caller) ==
  IF ~is_valid_lk_constraint(c)
  THEN Scan_return(ScanLocals(<<>>, caller), RetNone, v)
  ELSE Scan_running(ScanLocals(expand_mt(c.e), caller))

\* the positions of the Countless of e from start to end
CountlessIn(e, start, end) ==
  SelectSeq([i \in 1..Len(e) |-> i - 1],
            LAMBDA i : start <= i /\ i <= end /\ TypeOf(e[i + 1]) = "Countless")

\* result.append((group_start, group_end, new_countless)); gs is the state
\* after the first inner loop, ge after the second
Scan_append(f, gs, ge) ==
  IF ge.raised THEN Scan_raise(f, "ValueError")
  ELSE Scan_running(
               [f EXCEPT !.ct_indexes = ge.ct_indexes,
                         !.p = @ + 1,
                         !.result = Append(@, [start |-> gs.group_start,
                                               end |-> ge.group_end,
                                               ct |-> ge.nc,
                                               of |-> f.ct_indexes[f.p + 1]]),
                         !.grouped = @ \o CountlessIn(f.expanded,
                                                      gs.group_start,
                                                      ge.group_end),
                         !.turns = @ + 1])

\* the second inner loop of the turn
Scan_group_end(f, gs) ==
  Scan_append(f, gs,
              find_group_end(f.expanded,
                             [nc |-> gs.nc, group_end |-> Len(f.expanded) - 1,
                              ct_indexes |-> f.ct_indexes, raised |-> FALSE],
                             f.ct_indexes[f.p + 1] + 1))

\* one turn of `for ct_i in ct_indexes`, or the statements of
\* simplify_constraint after get_ct_group_info returned; kind is the type of
\* the constraint given
Scan_turn(f, kind, v) ==
  IF f.p >= Len(f.ct_indexes)
  THEN Scan_return(f, [k |-> kind,
                       e |-> rebuild(f.expanded, f.result, <<>>, 0)], v)
  ELSE Scan_group_end(f,
         find_group_start(f.expanded,
                          [nc |-> Countless(f.expanded[f.ct_indexes[f.p + 1] + 1].c,
                                            f.expanded[f.ct_indexes[f.p + 1] + 1].al),
                           group_start |-> 0],
                          f.ct_indexes[f.p + 1] - 1))

-----------------------------------------------------------------------------
(* src/configurator/read/imp.py: import_setting                            *)

\* the attribute is there and type(attribute) == FunctionType
is_function_attribute(attribute) ==
  attribute.k # "absent" /\ TypeOf(attribute) = "function"

\* a bug that prints the error and comes back
err_only_prints(err_desc) == [printed |-> err_desc, exits |-> FALSE]

\* err(err_desc) of error/core.py: prints the error and calls exit(0)
err(err_desc) == [printed |-> err_desc, exits |-> TRUE]

\* what a call of err at the position pc leaves: the process exits, or the
\* statement after the call runs
Import_err(f, e, next) ==
  IF e.exits
  THEN [op |-> "import_setting",
        result |-> [k |-> "raise", exc |-> "SystemExit"],
        frame |-> [f EXCEPT !.pc = "exited", !.printed = Append(@, e.printed)]]
  ELSE Running("importing", [f EXCEPT !.pc = next,
                                      !.printed = Append(@, e.printed)])

\* the try statement: the module is loaded, the file is not found, or the
\* loading raises something else
Import_load(f) ==
  CASE f.file = "loads" ->
         Running("importing", [f EXCEPT !.pc = "configure", !.module = TRUE])
    [] f.file = "missing" -> Import_err(f, err("setting_not_found"), "configure")
    [] OTHER -> Returned("import_setting", f,
                         [k |-> "raise", exc |-> f.file])

\* `funcs = []` and the if statement for the configure function; module is
\* not bound when err came back from the except clause
Import_configure(f) ==
  IF ~f.module
  THEN Returned("import_setting", f,
                [k |-> "raise", exc |-> "UnboundLocalError"])
  ELSE IF is_function_attribute(f.configure)
  THEN Running("importing", [f EXCEPT !.pc = "control",
                                      !.funcs = <<f.configure>>])
  ELSE Import_err(f, err("configure_not_found"), "control")

\* the statement for the control function, and `return funcs`
Import_control(f) ==
  Returned("import_setting", f,
           List(IF is_function_attribute(f.control)
                THEN Append(f.funcs, f.control) ELSE f.funcs))

-----------------------------------------------------------------------------
(* The explored constraints and values *)

SeqsUpTo(S, n) == UNION {[1..m -> S] : m \in 0..n}

\* values: 1, "s", True, 1.5
I == Atom("int", 1)
S == Atom("str", 1)
B == Atom("bool", 1)
F == Atom("float", 1)

\* constraints: int, str, bool
int == Type("int")
str == Type("str")
bool == Type("bool")

must_be_int == Fn("must_be_int", 1)
returns_none == Fn("returns_none", 1)
no_complain == Fn("no_complain", 1)
always_complain == Fn("always_complain", 1)
two_args == Fn("two_args", 2)

\* objects that no constraint class recognizes: the number 1 and a function
\* of two arguments
Unrecognized == {I, two_args}

NestedValues == {I, B, Tuple(<<I, I>>), Tuple(<<I, S>>), List(<<I>>),
                 Dict(<<Entry("a", I)>>)}

ListValues ==
  {List(e) : e \in SeqsUpTo({I, S}, MaxValLen)}
    \cup {Tuple(e) : e \in SeqsUpTo({I, S}, 2)}
    \cup {Tuple(<<I, I, I>>)}
    \cup {List(e) : e \in SeqsUpTo(NestedValues, 2)}
    \cup {I, Dict(<<Entry("a", I)>>)}

FieldValues == {I, S, B, List(<<I>>), List(<<S>>), Dict(<<Entry("a", I)>>),
                Dict(<<Entry("a", I), Entry("b", I)>>),
                List(<<Dict(<<Entry("a", I), Entry("b", I)>>)>>)}

DictValues ==
  {Dict(<<>>)}
    \cup {Dict(<<Entry(key, x)>>) : key \in LitKeys, x \in FieldValues}
    \cup {Dict(<<Entry("a", x), Entry("b", y)>>) : x, y \in FieldValues}
    \cup {I, List(<<I>>)}

OrValues == {I, S, B, F, List(<<>>), List(<<I>>), List(<<S>>), List(<<I, I>>),
             Tuple(<<I, I>>), Dict(<<Entry("a", I)>>), Dict(<<Entry("a", S)>>)}

AllValues == ListValues \cup DictValues \cup OrValues

TypeArgs == {Type(t) : t \in {"int", "str", "bool", "float", "list", "tuple", "dict"}}
              \cup Unrecognized

CheckArgs == {must_be_int, returns_none, no_complain, always_complain}
               \cup Unrecognized

\* the elements of the explored list-like constraints
CoreElements ==
  {int, str}
    \cup {Countless(int, a) : a \in 0..MaxAtLeast}
    \cup {Multiple(int, n) : n \in 0..MaxCount}

NestedConstraints ==
  {Tuple(<<int, int>>), List(<<int>>), Dict(<<Entry("a", int)>>),
   Or(2, <<int, str>>), must_be_int}

MixedElements ==
  {int, bool} \cup NestedConstraints \cup Unrecognized
    \cup {List(<<I>>), Dict(<<Entry("a", I)>>), Or(2, <<I>>)}
    \cup {Countless(c, a) : c \in NestedConstraints \cup {I, str},
                            a \in {1, MaxAtLeast}}
    \cup {Multiple(c, n) : c \in {Tuple(<<int, int>>), str, must_be_int, I},
                           n \in {0, MaxCount}}

\* quantifiers constructed with a negative number
NegativeElements == {int, Countless(int, -1), Multiple(int, -1)}

ListConstraints ==
  {List(e) : e \in SeqsUpTo(CoreElements, MaxLen)}
    \cup {List(e) : e \in SeqsUpTo({int, str}, MaxFixed)}
    \cup {List(e) : e \in SeqsUpTo(MixedElements, 2)}
    \cup {Tuple(e) : e \in SeqsUpTo({int, Countless(int, 1)}, 2)}
    \cup {List(e) : e \in SeqsUpTo(NegativeElements, 2)}
    \cup {I, Dict(<<>>)}

FieldConstraints ==
  {int, str, must_be_int, returns_none, List(<<int>>), Dict(<<Entry("a", int)>>),
   Or(2, <<int, str>>), Or(2, <<List(<<int>>), str>>), I,
   Dict(<<Entry("a", I)>>), List(<<Dict(<<Entry("a", int)>>)>>),
   List(<<Countless(Dict(<<Entry("a", int)>>), 1)>>),
   Or(2, <<Dict(<<Entry("a", int)>>), str>>)}

DictConstraints ==
  {Dict(<<>>)}
    \cup {Dict(<<Entry(key, c)>>) : key \in LitKeys \cup TypeKeys,
                                    c \in FieldConstraints}
    \cup {Dict(<<Entry("a", c), Entry("b", d)>>) : c, d \in FieldConstraints}
    \cup {Dict(<<Entry("b", c), Entry("a", d)>>) : c, d \in FieldConstraints}
    \cup {I, List(<<int>>)}

\* the patterns given to simplify_constraint alone
SimplifyElements ==
  CoreElements \cup NegativeElements
    \cup {Countless(str, 1), Multiple(str, 1), Tuple(<<int, int>>),
          Countless(Tuple(<<int, int>>), 1), Or(2, <<int, str>>),
          Countless(Or(2, <<int, str>>), 0)}

SimplifyConstraints ==
  ListConstraints
    \cup {List(e) : e \in SeqsUpTo(SimplifyElements, MaxSimplifyLen)}
    \cup {List(<<Countless(int, 1), Countless(int, 3)>>)}

\* malformed and nested constraints for the well-formedness checks
ValidityConstraints ==
  {List(<<Countless(Countless(int, 1), 1)>>),
   List(<<Multiple(Countless(int, 1), 1)>>),
   List(<<Countless(Multiple(int, 1), 1)>>),
   List(<<int, Multiple(Multiple(int, 1), 1)>>),
   List(<<List(<<Countless(I, 1)>>)>>),
   List(<<List(<<Countless(List(<<int>>), 1)>>)>>),
   Tuple(<<Dict(<<Entry("<class int>", int)>>)>>),
   Tuple(<<Or(2, <<List(<<I>>)>>)>>),
   Dict(<<Entry("a", Countless(int, 1))>>),
   Dict(<<Entry("a", Multiple(int, 1))>>),
   Dict(<<Entry("a", List(<<Countless(Multiple(int, 1), 1)>>))>>),
   Dict(<<Entry("a", List(<<Countless(int, 1)>>))>>),
   Dict(<<Entry("a", Dict(<<Entry("<class int>", int)>>))>>),
   Dict(<<Entry("a", two_args)>>),
   Countless(int, 1), Multiple(int, 1)}

\* the constraints and values of the calls that are repeated
ReuseListConstraints == {List(e) : e \in SeqsUpTo(CoreElements, MaxLen)}

ReuseListValues == {List(e) : e \in SeqsUpTo({I, S}, MaxValLen)}

ReuseDictConstraints ==
  {Dict(<<Entry("a", c), Entry("b", d)>>) : c, d \in {int, str, List(<<int>>)}}

OrOptions ==
  {int, str, must_be_int, List(<<int>>), Tuple(<<int, int>>),
   List(<<Countless(int, 1)>>), Dict(<<Entry("a", int)>>),
   Dict(<<Entry("a", List(<<int>>))>>), Or(2, <<int, str>>),
   Or(2, <<List(<<int>>)>>), I, List(<<I>>)}

OrConstraints == {Or(1, o) : o \in SeqsUpTo(OrOptions, 2)}

\* the constraints and values of the calls followed statement by statement
StepElements ==
  {int, str, Countless(int, 0), Countless(int, 1), Countless(str, 1),
   Multiple(int, 2), Countless(Or(2, <<int, str>>), 1)}

StepConstraints ==
  {List(e) : e \in SeqsUpTo(StepElements, MaxStepLen)}
    \cup {Tuple(<<Countless(int, 1), int>>), List(<<List(<<int>>), int>>),
          List(<<I>>), I}

StepValues ==
  {List(e) : e \in SeqsUpTo({I, S}, MaxStepValLen)}
    \cup {List(<<List(<<I>>), I>>), Tuple(<<I, I>>), I}

\* what the settings module holds under a name: nothing, a function made by
\* def or by lambda, a class, a builtin function, a number
Absent == [k |-> "absent"]

Attributes(name) ==
  {Absent, Fn(name, 0), Fn("<lambda>", 0), Type(name),
   [k |-> "builtin", name |-> "len"], I}

\* the state of .sgr/settings.py: not there, loadable, or raising when it
\* is loaded
ImportLocals ==
  {[call |-> "import", pc |-> "load", file |-> "loads", module |-> FALSE,
    configure |-> a, control |-> b, funcs |-> <<>>, printed |-> <<>>] :
     a \in Attributes("configure"),
     b \in Attributes("control") \cup {Fn("configure", 0)}}
    \cup {[call |-> "import", pc |-> "load", file |-> x, module |-> FALSE,
           configure |-> Absent, control |-> Absent, funcs |-> <<>>,
           printed |-> <<>>] :
            x \in {"missing", "SyntaxError", "IsADirectoryError"}}

\* the patterns given to the Scheme simplify_constraint: type tags,
\* Countless and Multiple, and a few nested or malformed ones
SchemeElements ==
  {int, str, Countless(str, 1)}
    \cup {Countless(int, a) : a \in {1, MaxSchemeAtLeast}}
    \cup {Multiple(int, n) : n \in 0..MaxCount}

SchemeConstraints ==
  {List(e) : e \in SeqsUpTo(SchemeElements, MaxSchemeLen)}
    \cup {Tuple(e) : e \in SeqsUpTo({int, Countless(int, 1)}, 2)}
    \cup {List(<<List(<<int>>), Dict(<<Entry("a", List(<<I>>))>>)>>),
          List(<<Dict(<<Entry("a", int)>>), int>>), List(<<I>>), I}

-----------------------------------------------------------------------------------------------------------------------------------------------------
(* State machine: a client holds a constraint, a value and the two flags,  *)
(* and calls one of the validators with them; op names the call made and   *)
(* result is what it returned.                                             *)

\* the state before the call, with the arguments drawn from the given sets
\* (the flags of a call that passes none are the defaults True and False)
Arguments(Cs, Vs, Excess, Scarcity) ==
  /\ op = "none"
  /\ constraint \in Cs
  /\ value \in Vs
  /\ accept_excess \in Excess
  /\ accept_scarcity \in Scarcity
  /\ result = RetNone
  /\ frame = NoFrame

InitType == Arguments(TypeArgs, AllValues, {TRUE}, {FALSE})
InitCheck == Arguments(CheckArgs, AllValues, {TRUE}, {FALSE})
InitOr == Arguments(OrConstraints, OrValues, {TRUE}, {FALSE})
InitDict == Arguments(DictConstraints, DictValues, BOOLEAN, BOOLEAN)
InitList == Arguments(ListConstraints, ListValues, {TRUE}, {FALSE})
InitSimplify == Arguments(SimplifyConstraints, {List(<<>>)}, {TRUE}, {FALSE})
InitInspect ==
  Arguments(TypeArgs \cup CheckArgs \cup OrConstraints \cup DictConstraints
              \cup SimplifyConstraints \cup ValidityConstraints,
            {List(<<>>)}, {TRUE}, {FALSE})

InitScheme == Arguments(SchemeConstraints, {List(<<>>)}, {TRUE}, {FALSE})

InitKinds ==
  Arguments(TypeArgs \cup CheckArgs \cup OrConstraints \cup DictConstraints
              \cup ListConstraints \cup ValidityConstraints,
            {List(<<>>)}, {TRUE}, {FALSE})

InitSteps == Arguments(StepConstraints, StepValues, {TRUE}, {FALSE})

InitImport ==
  /\ op = "none"
  /\ constraint = RetNone
  /\ value = RetNone
  /\ accept_excess = TRUE
  /\ accept_scarcity = FALSE
  /\ result = RetNone
  /\ frame \in ImportLocals

InitReuse ==
  \/ Arguments(ReuseListConstraints, ReuseListValues, {TRUE}, {FALSE})
  \/ Arguments(ReuseDictConstraints, DictValues, BOOLEAN, BOOLEAN)

Init ==
  \/ InitType \/ InitCheck \/ InitOr \/ InitDict \/ InitList
  \/ InitSimplify \/ InitInspect \/ InitReuse \/ InitScheme
  \/ InitSteps \/ InitImport

\* TypeConstraint.static_validate(constraint, value)
TypeValidate ==
  /\ op = "none"
  /\ op' = "TypeConstraint.static_validate"
  /\ result' = TypeConstraint_static_validate(constraint, value)
  /\ UNCHANGED <<constraint, value, accept_excess, accept_scarcity, frame>>

\* Check.static_validate(constraint, value)
CheckValidate ==
  /\ op = "none"
  /\ op' = "Check.static_validate"
  /\ result' = Check_static_validate(constraint, value)
  /\ UNCHANGED <<constraint, value, accept_excess, accept_scarcity, frame>>

\* constraint.validate(value), constraint an instance of Or
OrValidate ==
  /\ op = "none"
  /\ TypeOf(constraint) = "Or"
  /\ op' = "Or.validate"
  /\ result' = Or_validate(constraint, value)
  /\ UNCHANGED <<constraint, value, accept_excess, accept_scarcity, frame>>

\* DictConstraint.static_validate(constraint, value, accept_excess,
\* accept_scarcity)
DictValidate ==
  /\ op = "none"
  /\ op' = "DictConstraint.static_validate"
  /\ result' = DictConstraint_static_validate(constraint, value,
                                              accept_excess, accept_scarcity)
  /\ value' = value_after_dict_validate(constraint, value)
  /\ UNCHANGED <<constraint, accept_excess, accept_scarcity, frame>>

\* ListLikeConstraint.static_validate(constraint, value)
ListValidate ==
  /\ op = "none"
  /\ op' = "ListLikeConstraint.static_validate"
  /\ result' = ListLikeConstraint_static_validate(constraint, value)
  /\ constraint' = constraint_after_simplify(constraint)
  /\ UNCHANGED <<value, accept_excess, accept_scarcity, frame>>

\* ListLikeConstraint.simplify_constraint(constraint), called by a client
\* before or after a validation
Simplify ==
  /\ op \in {"none", "ListLikeConstraint.static_validate",
             "DictConstraint.static_validate"}
  /\ op' = "simplify_constraint"
  /\ result' = simplify_constraint(constraint)
  /\ constraint' = constraint_after_simplify(constraint)
  /\ UNCHANGED <<value, accept_excess, accept_scarcity, frame>>

\* ListLikeConstraint.static_validate(constraint, value) on a constraint
\* that was given to simplify_constraint before; the call simplifies the
\* constraint itself and only reads the value
ListRevalidate ==
  /\ op = "simplify_constraint"
  /\ op' = "ListLikeConstraint.static_validate"
  /\ result' = ListLikeConstraint_static_validate(constraint, value)
  /\ constraint' = constraint_after_simplify(constraint)
  /\ UNCHANGED <<value, accept_excess, accept_scarcity, frame>>

\* a Python bool as a result
Bool(b) == IF b THEN RetTrue ELSE RetFalse

\* get_constraint_class(constraint)
GetClass ==
  /\ op = "none"
  /\ op' = "get_constraint_class"
  /\ result' = [k |-> "class", cls |-> get_constraint_class(constraint)]
  /\ UNCHANGED <<constraint, value, accept_excess, accept_scarcity, frame>>

\* ListLikeConstraint.is_valid_lk_constraint(constraint)
LkValid ==
  /\ op = "none"
  /\ op' = "is_valid_lk_constraint"
  /\ result' = Bool(is_valid_lk_constraint(constraint))
  /\ UNCHANGED <<constraint, value, accept_excess, accept_scarcity, frame>>

\* DictConstraint.is_valid_dt_constraint(constraint)
DtValid ==
  /\ op = "none"
  /\ op' = "is_valid_dt_constraint"
  /\ result' = Bool(is_valid_dt_constraint(constraint))
  /\ UNCHANGED <<constraint, value, accept_excess, accept_scarcity, frame>>

\* DictConstraint.static_validate(constraint, value, accept_excess,
\* accept_scarcity) with arguments that were used in calls before
DictRevalidate ==
  /\ op = "simplify_constraint"
  /\ op' = "DictConstraint.static_validate"
  /\ result' = DictConstraint_static_validate(constraint, value,
                                              accept_excess, accept_scarcity)
  /\ value' = value_after_dict_validate(constraint, value)
  /\ UNCHANGED <<constraint, accept_excess, accept_scarcity, frame>>

\* Scheme ListLikeConstraint.simplify_constraint(constraint); the call
\* builds new lists and new Countless and leaves its argument alone
SchemeSimplify ==
  /\ op = "none"
  /\ op' = "Scheme.simplify_constraint"
  /\ result' = Scheme_simplify_constraint(constraint)
  /\ UNCHANGED <<constraint, value, accept_excess, accept_scarcity, frame>>

\* the step of a followed call takes effect
Step(r) ==
  /\ op' = r.op
  /\ result' = r.result
  /\ frame' = r.frame

\* ListLikeConstraint.static_validate(constraint, value) is entered and
\* calls simplify_constraint
MatchBegin ==
  /\ op = "none" /\ frame.pc = "none"
  /\ Step(Scan_begin(constraint, value, "static_validate"))
  /\ UNCHANGED <<constraint, value, accept_excess, accept_scarcity>>

\* one turn of its for loop
MatchSlot ==
  /\ op = "matching" /\ frame.pc = "slot"
  /\ Step(Match_slot(frame, value))
  /\ UNCHANGED <<constraint, value, accept_excess, accept_scarcity>>

\* one turn of its while loop
MatchWhile ==
  /\ op = "matching" /\ frame.pc = "while"
  /\ Step(Match_while_turn([frame EXCEPT !.turns = @ + 1], value))
  /\ UNCHANGED <<constraint, value, accept_excess, accept_scarcity>>

\* ListLikeConstraint.simplify_constraint(constraint) is entered by a client
ScanBegin ==
  /\ op = "none" /\ frame.pc = "none"
  /\ Step(Scan_begin(constraint, value, "client"))
  /\ UNCHANGED <<constraint, value, accept_excess, accept_scarcity>>

\* one turn of the loop of get_ct_group_info, or the return of
\* simplify_constraint; the turn assigns to new_countless.at_least only,
\* and new_countless is no element of the constraint (new_countless_ref)
ScanTurn ==
  /\ op \in {"scanning", "matching"} /\ frame.pc = "scan"
  /\ Step(Scan_turn(frame, constraint.k, value))
  /\ constraint' = (IF \A a \in DOMAIN frame.ct_indexes :
                          new_countless_ref(frame.ct_indexes[a]) = -1
                     THEN constraint
                     ELSE constraint_after_simplify(constraint))
  /\ UNCHANGED <<value, accept_excess, accept_scarcity>>

\* import_setting(): the try statement
ImportLoad ==
  /\ op = "none" /\ frame.pc = "load"
  /\ Step(Import_load(frame))
  /\ UNCHANGED <<constraint, value, accept_excess, accept_scarcity>>

\* import_setting(): the configure function
ImportConfigure ==
  /\ op = "importing" /\ frame.pc = "configure"
  /\ Step(Import_configure(frame))
  /\ UNCHANGED <<constraint, value, accept_excess, accept_scarcity>>

\* import_setting(): the control function and the return
ImportControl ==
  /\ op = "importing" /\ frame.pc = "control"
  /\ Step(Import_control(frame))
  /\ UNCHANGED <<constraint, value, accept_excess, accept_scarcity>>

NextSteps == MatchBegin \/ MatchSlot \/ MatchWhile \/ ScanBegin \/ ScanTurn

Next ==
  \/ TypeValidate \/ CheckValidate \/ OrValidate \/ DictValidate
  \/ ListValidate \/ Simplify \/ ListRevalidate
  \/ GetClass \/ LkValid \/ DtValid \/ DictRevalidate \/ SchemeSimplify
  \/ NextSteps \/ ImportLoad \/ ImportConfigure \/ ImportControl

Spec == Init /\ [][Next]_vars

SpecType == InitType /\ [][TypeValidate]_vars
SpecCheck == InitCheck /\ [][CheckValidate]_vars
SpecOr == InitOr /\ [][OrValidate]_vars
SpecDict == InitDict /\ [][DictValidate]_vars
SpecList == InitList /\ [][ListValidate]_vars
SpecDictList == (InitDict \/ InitList) /\ [][DictValidate \/ ListValidate]_vars
SpecSimplify == InitSimplify /\ [][Simplify]_vars
SpecInspect == InitInspect /\ [][GetClass \/ LkValid \/ DtValid \/ Simplify]_vars
SpecKinds == InitKinds /\ [][GetClass]_vars
SpecMatch ==
  InitSteps /\ [][MatchBegin \/ ScanTurn \/ MatchSlot \/ MatchWhile]_vars
SpecSteps == InitSteps /\ [][NextSteps]_vars /\ WF_vars(NextSteps)
SpecImport ==
  InitImport /\ [][ImportLoad \/ ImportConfigure \/ ImportControl]_vars
SpecScheme == InitScheme /\ [][SchemeSimplify]_vars
SpecReuse ==
  InitReuse /\ [][Simplify \/ ListValidate \/ ListRevalidate \/ DictValidate
                    \/ DictRevalidate]_vars

-----------------------------------------------------------------------------
(* Vocabulary of the properties *)

IsErrorObject(r) == r.k \in {"UnsatisfiedError", "InvalidConstraintError"}

\* the call returned and what it returned is not an error object
Accepted(r) == ~Raised(r) /\ ~IsErrorObject(r)

\* validate(constraint, value) of the interface: the validator of the class
\* that handles the constraint, called by a client with the default flags
validate(c, v) ==
  CASE get_constraint_class(c) = "TypeConstraint" ->
         TypeConstraint_static_validate(c, v)
    [] get_constraint_class(c) = "DictConstraint" ->
         DictConstraint_static_validate(c, v, TRUE, FALSE)
    [] get_constraint_class(c) = "ListLikeConstraint" ->
         ListLikeConstraint_static_validate(c, v)
    [] get_constraint_class(c) = "Or" -> Or_validate(c, v)
    [] get_constraint_class(c) = "Check" -> Check_static_validate(c, v)
    [] OTHER -> InvalidConstraintError("None")

\* the value satisfies the constraint
Satisfies(c, v) == Accepted(validate(c, v))

\* the data model's recursive well-formedness of a constraint
RECURSIVE WellFormed(_)
WellFormed(c) ==
  CASE c.k = "type" -> TRUE
    [] c.k = "fn" -> c.argc = 1
    [] c.k = "dict" ->
         \A i \in DOMAIN c.f : c.f[i].key \in LitKeys /\ WellFormed(c.f[i].val)
    [] c.k \in {"list", "tuple"} ->
         \A i \in DOMAIN c.e :
           IF c.e[i].k \in {"ct", "mt"}
           THEN c.e[i].c.k \notin {"ct", "mt"} /\ WellFormed(c.e[i].c)
           ELSE WellFormed(c.e[i])
    [] c.k = "or" -> \A i \in DOMAIN c.o : WellFormed(c.o[i])
    [] OTHER -> FALSE

IsListLike(x) == x.k \in {"list", "tuple"}

ListCalled == op = "ListLikeConstraint.static_validate"
DictCalled == op = "DictConstraint.static_validate"
OrCalled == op = "Or.validate"
TypeCalled == op = "TypeConstraint.static_validate"
CheckCalled == op = "Check.static_validate"
Simplified == op = "simplify_constraint"
ClassAsked == op = "get_constraint_class"
LkAsked == op = "is_valid_lk_constraint"
DtAsked == op = "is_valid_dt_constraint"

\* the kind a constraint is written as
KindOf(c) ==
  CASE c.k = "type" -> "TypeConstraint"
    [] c.k = "dict" -> "DictConstraint"
    [] c.k \in {"list", "tuple"} -> "ListLikeConstraint"
    [] c.k = "or" -> "Or"
    [] c.k = "fn" -> "Check"
    [] OTHER -> "None"

\* the fixed order of the kinds
KindOrder == <<"TypeConstraint", "DictConstraint", "ListLikeConstraint", "Or",
               "Check">>

\* the kind accepts c as a well-formed constraint of it
AcceptsAs(kind, c) == KindOf(c) = kind /\ WellFormed(c)

-----------------------------------------------------------------------------
(* C1..C10 *)

\* C1: every validator reports acceptance by the falsy no-complaint value
\* and rejection by an error object; in particular a call of
\* ListLikeConstraint.static_validate that returns, returns either a falsy
\* value or an error object.
C1_ListLikeReturnsFalseOrError ==
  (ListCalled /\ ~Raised(result)) => (~Truthy(result) \/ IsErrorObject(result))

\* C2: for a type tag T, TypeConstraint.static_validate(T, v) returns False
\* exactly when the type of v is T, and an UnsatisfiedError otherwise; a bool
\* or a str is not accepted as an int.
C2_ExactTypeMatch ==
  (TypeCalled /\ constraint.k = "type") =>
     IF TypeOf(value) = constraint.t
     THEN result = RetFalse
     ELSE result.k = "UnsatisfiedError"

C2_Witness ==
  /\ TypeCalled
  /\ constraint = int
  /\ value = B
  /\ result.k = "UnsatisfiedError"

\* C3: a pattern of n type tags accepts a list exactly when the list has n
\* elements and the type of element i is the i-th tag; any other list is
\* rejected with UnsatisfiedError.
C3_FixedArity ==
  (/\ ListCalled
   /\ IsListLike(constraint)
   /\ \A i \in DOMAIN constraint.e : constraint.e[i].k = "type"
   /\ IsListLike(value)) =>
     IF /\ Len(value.e) = Len(constraint.e)
        /\ \A i \in DOMAIN constraint.e : TypeOf(value.e[i]) = constraint.e[i].t
     THEN Accepted(result)
     ELSE result.k = "UnsatisfiedError"

C3_Witness ==
  /\ ListCalled
  /\ constraint = List(<<int, int, int>>)
  /\ value = List(<<I, I, I>>)
  /\ Accepted(result)

\* C4: the pattern [Countless(c, a)] with a >= 1 and c a well-formed
\* constraint accepts a list exactly when the list has at least a elements
\* and every element satisfies c.
C4_CountlessMinimum ==
  (/\ ListCalled
   /\ IsListLike(constraint)
   /\ Len(constraint.e) = 1
   /\ constraint.e[1].k = "ct"
   /\ constraint.e[1].al >= 1
   /\ WellFormed(constraint)
   /\ IsListLike(value)) =>
     (Accepted(result) <=>
        /\ Len(value.e) >= constraint.e[1].al
        /\ \A i \in DOMAIN value.e : Satisfies(constraint.e[1].c, value.e[i]))

\* C5: [Countless((int, int))] accepts every non-empty list of 2-tuples of
\* integers and rejects [1].
C5_CountlessOfSequence ==
  (ListCalled /\ constraint = List(<<Countless(Tuple(<<int, int>>), 1)>>)) =>
     /\ (/\ value.k = "list"
         /\ Len(value.e) >= 1
         /\ \A i \in DOMAIN value.e : value.e[i] = Tuple(<<I, I>>))
          => Accepted(result)
     /\ value = List(<<I>>) => ~Accepted(result)

\* C6: a well-formed Or accepts a value exactly when one of its options, of
\* whatever kind, accepts it, and returns UnsatisfiedError when none does.
C6_OrAcceptsIffSomeOption ==
  (OrCalled /\ WellFormed(constraint)) =>
     IF \E i \in DOMAIN constraint.o : Satisfies(constraint.o[i], value)
     THEN Accepted(result)
     ELSE result.k = "UnsatisfiedError"

\* C7: a well-formed record constraint accepts a dict exactly when every
\* declared key present in the dict has a value satisfying its
\* sub-constraint, every declared key is present unless accept_scarcity, and
\* the dict has no undeclared key unless accept_excess.
C7_RecordAcceptance ==
  (DictCalled /\ constraint.k = "dict" /\ WellFormed(constraint)
     /\ value.k = "dict") =>
     (Accepted(result) <=>
        /\ \A i \in DOMAIN constraint.f :
             constraint.f[i].key \in DictKeys(value) =>
               Satisfies(constraint.f[i].val,
                         DictGet(value, constraint.f[i].key))
        /\ accept_scarcity \/ DictKeys(constraint) \subseteq DictKeys(value)
        /\ accept_excess \/ DictKeys(value) \subseteq DictKeys(constraint))

C9_MalformedOrCheckReturnsInvalid ==
  /\ (OrCalled /\ ~WellFormed(constraint))
       => result.k = "InvalidConstraintError"
  /\ (CheckCalled /\ ~(constraint.k = "fn" /\ WellFormed(constraint)))
       => result.k = "InvalidConstraintError"

\* the pattern with the Multiple at position j (1-based) replaced by count
\* copies of its inner constraint
ReplaceMultiple(c, j) ==
  [c EXCEPT !.e = SubSeq(@, 1, j - 1) \o Copies(@[j].c, @[j].n)
                    \o SubSeq(@, j + 1, Len(@))]

\* C10: a pattern containing Multiple(c, n), c well-formed and n >= 0, gives
\* for every value the same outcome as the pattern with that Multiple
\* replaced by n copies of c.
C10_MultipleIsCopies ==
  (ListCalled /\ IsListLike(constraint)) =>
     \A j \in DOMAIN constraint.e :
       (/\ constraint.e[j].k = "mt"
        /\ WellFormed(constraint.e[j].c)
        /\ constraint.e[j].n >= 0) =>
          result = ListLikeConstraint_static_validate(
                     ReplaceMultiple(constraint, j), value)

C10_Witness ==
  /\ ListCalled
  /\ constraint = List(<<Multiple(int, 2), str>>)
  /\ value = List(<<I, I, S>>)
  /\ Accepted(result)

-----------------------------------------------------------------------------
(* C11..C20 *)

\* C11: simplification is idempotent: for a well-formed sequence pattern,
\* simplifying what simplify_constraint returned gives the same pattern
\* again (same container, same elements in the same order, same inner
\* constraints and at_least of the Countless).
C11_SimplifyIdempotent ==
  (Simplified /\ IsListLike(constraint) /\ WellFormed(constraint)) =>
     /\ IsListLike(result)
     /\ simplify_constraint(result) = result

C11_Witness ==
  /\ Simplified
  /\ constraint = List(<<Multiple(int, 2), Countless(int, 1)>>)
  /\ result = List(<<Countless(int, 3)>>)

\* C12: a Countless with at_least = 0 matches an empty run, also when the
\* value is exhausted at its slot: a pattern of str tags followed by
\* Countless(int, 0) accepts the list that holds just the strings, so
\* [Countless(int, 0)] accepts [] and [str, Countless(int, 0)] accepts ["s"].
C12_CountlessZeroMatchesEmptyRun ==
  (/\ ListCalled
   /\ constraint.k = "list"
   /\ Len(constraint.e) >= 1
   /\ constraint.e[Len(constraint.e)] = Countless(int, 0)
   /\ \A i \in 1..(Len(constraint.e) - 1) : constraint.e[i] = str
   /\ value.k = "list"
   /\ Len(value.e) = Len(constraint.e) - 1
   /\ \A i \in DOMAIN value.e : TypeOf(value.e[i]) = "str") =>
     Accepted(result)

C14_FirstAcceptingKind ==
  [][op' = "get_constraint_class" =>
       /\ constraint' = constraint
       /\ IF \E i \in DOMAIN KindOrder : AcceptsAs(KindOrder[i], constraint)
          THEN \E i \in DOMAIN KindOrder :
                 /\ AcceptsAs(KindOrder[i], constraint)
                 /\ \A j \in 1..(i - 1) : ~AcceptsAs(KindOrder[j], constraint)
                 /\ result'.cls = KindOrder[i]
          ELSE result'.cls = "None"]_vars

C14_Witness ==
  /\ ClassAsked
  /\ constraint = Dict(<<Entry("a", List(<<Countless(int, 1)>>))>>)
  /\ result.cls = "DictConstraint"

\* C15: a list-like constraint written as a list does not accept a tuple:
\* [int, int, int] rejects the tuple (1, 2, 3) although it accepts the list
\* [1, 2, 3].
C15_ListPatternRejectsTuple ==
  (ListCalled /\ constraint = List(<<int, int, int>>)) =>
     /\ value = Tuple(<<I, I, I>>) => ~Accepted(result)
     /\ value = List(<<I, I, I>>) => Accepted(result)

ReverseFields(c) ==
  [c EXCEPT !.f = [i \in 1..Len(@) |-> @[Len(@) + 1 - i]]]

\* C17: record field order is irrelevant to validation: for a well-formed
\* record constraint, any flags and any value, the constraint with its
\* fields declared in the opposite order accepts the value exactly when the
\* constraint does.
C17_FieldOrderIrrelevant ==
  (DictCalled /\ constraint.k = "dict" /\ WellFormed(constraint)) =>
     (Accepted(result) <=>
        Accepted(DictConstraint_static_validate(ReverseFields(constraint),
                                                value, accept_excess,
                                                accept_scarcity)))

\* C18: is_valid_lk_constraint accepts exactly the lists and tuples whose
\* every element is a well-formed constraint or a Countless/Multiple of a
\* well-formed constraint that is no quantifier itself, and
\* is_valid_dt_constraint accepts exactly the dicts without a type tag as a
\* key whose every field value is a well-formed constraint; the answer is
\* a function of the constraint.
C18_ValidityIsWellFormedness ==
  /\ LkAsked =>
       (result = RetTrue <=> (IsListLike(constraint) /\ WellFormed(constraint)))
  /\ DtAsked =>
       (result = RetTrue <=> (constraint.k = "dict" /\ WellFormed(constraint)))
  /\ (LkAsked \/ DtAsked) => result \in {RetTrue, RetFalse}

C18_Witness ==
  /\ LkAsked
  /\ constraint = List(<<Countless(Countless(int, 1), 1)>>)
  /\ result = RetFalse

\* C19: in every pattern that is_valid_lk_constraint accepts, and in every
\* pattern that simplify_constraint returns, each Countless has
\* at_least >= 0 and each Multiple has count >= 0.
C19_QuantifiersNonNegative ==
  /\ (LkAsked /\ result = RetTrue) =>
       \A i \in DOMAIN constraint.e :
         /\ constraint.e[i].k = "ct" => constraint.e[i].al >= 0
         /\ constraint.e[i].k = "mt" => constraint.e[i].n >= 0
  /\ (Simplified /\ IsListLike(result)) =>
       \A i \in DOMAIN result.e :
         /\ result.e[i].k = "ct" => result.e[i].al >= 0
         /\ result.e[i].k = "mt" => result.e[i].n >= 0

\* C20: sequence validation succeeds only if every slot has been checked
\* and the pattern consumed the whole value: for a well-formed pattern of
\* fixed elements of any kind, nested sequence constraints included, a value
\* that has a non-matching element, too few or too many elements is
\* rejected with UnsatisfiedError.
C20_EverySlotChecked ==
  (/\ ListCalled
   /\ IsListLike(constraint)
   /\ WellFormed(constraint)
   /\ \A i \in DOMAIN constraint.e : constraint.e[i].k \notin {"ct", "mt"}
   /\ IsListLike(value)
   /\ ~(/\ Len(value.e) = Len(constraint.e)
        /\ \A i \in DOMAIN constraint.e :
             Satisfies(constraint.e[i], value.e[i]))) =>
     result.k = "UnsatisfiedError"

-----------------------------------------------------------------------------
(* C21..C30 *)

\* what the record check is to return from the declared key i (1-based) on:
\* the error of the first declared key that is missing or whose value does
\* not satisfy its sub-constraint, else the outcome of the excess-key check
RECURSIVE FirstFieldError(_, _, _, _, _)
FirstFieldError(c, v, ex, sc, i) ==
  IF i > Len(c.f)
  THEN IF ~ex /\ ~(DictKeys(v) \subseteq DictKeys(c))
       THEN UnsatisfiedError("extra_keys", 0)
       ELSE RetFalse
  ELSE IF c.f[i].key \notin DictKeys(v)
  THEN IF ~sc THEN UnsatisfiedError("missing_key", i - 1)
       ELSE FirstFieldError(c, v, ex, sc, i + 1)
  ELSE IF ~Satisfies(c.f[i].val, DictGet(v, c.f[i].key))
  THEN validate(c.f[i].val, DictGet(v, c.f[i].key))
  ELSE FirstFieldError(c, v, ex, sc, i + 1)

\* C21: DictConstraint.static_validate examines the declared keys in
\* declaration order and returns, unchanged, the error of the first declared
\* key that is missing (accept_scarcity false) or whose value fails its
\* sub-constraint; a key whose value satisfies its sub-constraint, of
\* whatever kind, does not end the check: the later keys and the excess-key
\* check still apply.
C21_FirstFieldErrorInOrder ==
  (DictCalled /\ constraint.k = "dict" /\ WellFormed(constraint)
     /\ value.k = "dict") =>
     result = FirstFieldError(constraint, value, accept_excess,
                              accept_scarcity, 1)

\* the declarative, full-backtracking meaning of a pattern without Multiple:
\* the elements from i on (1-based) match the values from j on, a Countless
\* taking any run of at least at_least values that satisfy its constraint
RECURSIVE BacktrackMatches(_, _, _, _)
BacktrackMatches(e, v, i, j) ==
  IF i > Len(e) THEN j > Len(v)
  ELSE IF e[i].k = "ct"
  THEN \E n \in 0..(Len(v) - j + 1) :
         /\ n >= e[i].al
         /\ \A h \in j..(j + n - 1) : Satisfies(e[i].c, v[h])
         /\ BacktrackMatches(e, v, i + 1, j + n)
  ELSE /\ j <= Len(v)
       /\ Satisfies(e[i], v[j])
       /\ BacktrackMatches(e, v, i + 1, j + 1)

\* the full-backtracking matcher accepts the value for the pattern
FullBacktracking(c, v) == BacktrackMatches(expand_mt(c.e), v.e, 1, 1)

\* C22: the greedy matcher is less permissive than a full-backtracking
\* matcher: every value that ListLikeConstraint.static_validate accepts for
\* a well-formed pattern is accepted by the full-backtracking meaning of the
\* pattern (which accepts more, e.g. [Countless(int, 1), int] with [1, 1]).
C22_GreedyWithinBacktracking ==
  (ListCalled /\ IsListLike(constraint) /\ WellFormed(constraint)
     /\ IsListLike(value) /\ Accepted(result)) =>
     FullBacktracking(constraint, value)

\* C23: the pattern that simplify_constraint returns is in normal form: it
\* has no Multiple, and no Countless(c, _) of it stands next to an element
\* equal to c or to another Countless of a constraint equal to c.
C23_SimplifiedIsNormalForm ==
  (Simplified /\ IsListLike(result)) =>
     \A i \in DOMAIN result.e :
       /\ result.e[i].k # "mt"
       /\ result.e[i].k = "ct" =>
            \A j \in {i - 1, i + 1} \cap DOMAIN result.e :
              /\ ~PyEq(result.e[j], result.e[i].c)
              /\ ~(result.e[j].k = "ct" /\ PyEq(result.e[j].c, result.e[i].c))

C23_Witness ==
  /\ Simplified
  /\ constraint = List(<<Multiple(int, 2), Countless(int, 1),
                         Countless(int, 2)>>)
  /\ result = List(<<Countless(int, 5)>>)

\* the constraint an element stands for in a group: the inner constraint of
\* a Countless, the element itself otherwise
GroupBase(x) == IF x.k = "ct" THEN x.c ELSE x

\* the first position after i whose element is not of the group of e[i]
RECURSIVE GroupEnd(_, _, _)
GroupEnd(e, i, h) ==
  IF h > Len(e) \/ ~PyEq(GroupBase(e[h]), GroupBase(e[i])) THEN h
  ELSE GroupEnd(e, i, h + 1)

\* the sum of the at_least of the Countless and the number of the fixed
\* elements of a run
RECURSIVE GroupAtLeast(_)
GroupAtLeast(run) ==
  IF run = <<>> THEN 0
  ELSE (IF Head(run).k = "ct" THEN Head(run).al ELSE 1)
         + GroupAtLeast(Tail(run))

\* the pattern with every maximal group that holds a Countless replaced by
\* one Countless, the other elements kept in their order
RECURSIVE MergedGroups(_, _)
MergedGroups(e, i) ==
  IF i > Len(e) THEN <<>>
  ELSE (IF \E h \in i..(GroupEnd(e, i, i) - 1) : e[h].k = "ct"
        THEN <<Countless(GroupBase(e[i]),
                         GroupAtLeast(SubSeq(e, i, GroupEnd(e, i, i) - 1)))>>
        ELSE SubSeq(e, i, GroupEnd(e, i, i) - 1))
         \o MergedGroups(e, GroupEnd(e, i, i))

\* C24: for each maximal contiguous group of Countless elements of a
\* constraint c and fixed elements equal to c, simplify_constraint emits one
\* Countless(c, m), m being the sum of the at_least of the group's Countless
\* plus the number of its fixed elements; every other element is emitted
\* unchanged, in its original order.
C24_GroupsMergedExactly ==
  (Simplified /\ IsListLike(constraint) /\ WellFormed(constraint)) =>
     /\ IsListLike(result)
     /\ result.k = constraint.k
     /\ result.e = MergedGroups(expand_mt(constraint.e), 1)

C24_Witness ==
  /\ Simplified
  /\ constraint = List(<<str, Countless(int, 1), Countless(int, 2)>>)
  /\ result = List(<<str, Countless(int, 3)>>)

\* the constraint is a record constraint or holds one as an element, as the
\* inner constraint of a quantifier or as an option
RECURSIVE HoldsRecord(_)
HoldsRecord(c) ==
  CASE c.k = "dict" -> TRUE
    [] c.k \in {"list", "tuple"} -> \E i \in DOMAIN c.e : HoldsRecord(c.e[i])
    [] c.k \in {"ct", "mt"} -> HoldsRecord(c.c)
    [] c.k = "or" -> \E i \in DOMAIN c.o : HoldsRecord(c.o[i])
    [] OTHER -> FALSE

\* the first field of the constraint is checked and holds a record
NestedRecordChecked ==
  /\ DictCalled /\ constraint.k = "dict" /\ WellFormed(constraint)
  /\ value.k = "dict" /\ Len(constraint.f) >= 1
  /\ HoldsRecord(constraint.f[1].val)
  /\ constraint.f[1].key \in DictKeys(value)

\* what a client gets for the nested constraint alone with the flags
\* accept_excess = True and accept_scarcity = False
NestedOutcome == validate(constraint.f[1].val, DictGet(value, constraint.f[1].key))

KindsHolding(c) ==
  (IF is_valid_type_constraint(c) THEN 1 ELSE 0)
    + (IF is_valid_dt_constraint(c) THEN 1 ELSE 0)
    + (IF is_valid_lk_constraint(c) THEN 1 ELSE 0)
    + (IF is_valid_or_constraint(c) THEN 1 ELSE 0)
    + (IF is_valid_check_constraint(c) THEN 1 ELSE 0)

\* the values the dispatch chains are tried with
ProbeValues == {I, S, List(<<I>>), Dict(<<Entry("a", I)>>)}

\* the four inline chains hand v to the validator of the class that
\* get_constraint_class names for c (the chain of DictConstraint calls the
\* method validate of Check instead of static_validate)
ChainsAgree(c, v) ==
  /\ Dict_field(c, v) = (IF get_constraint_class(c) = "Check"
                          THEN Check_validate(c, v) ELSE validate(c, v))
  /\ ListLike_slot(List(<<c>>), List(<<v>>), 0, 0, c, v)
       = ListLike_checked(List(<<c>>), List(<<v>>), 0, 0, validate(c, v))
  /\ Countless_validate(Countless(c, 0), v) = ReturnNot(validate(c, v))
  /\ Or_option(c, v) = validate(c, v)

\* C27: at most one of the well-formedness checks of the five kinds holds
\* for a constraint, and the inline dispatch chains of
\* DictConstraint.static_validate, ListLikeConstraint.static_validate,
\* Countless.validate and Or.validate select the validator of the class
\* that get_constraint_class returns.
C27_KindsExclusiveChainsAgree ==
  ClassAsked =>
     /\ KindsHolding(constraint) <= 1
     /\ (KindsHolding(constraint) = 1) = (result.cls # "None")
     /\ result.cls # "None" => \A v \in ProbeValues : ChainsAgree(constraint, v)

\* a list-like constraint, which the chains test before or after the
\* dictionary constraint
C27_Witness ==
  /\ ClassAsked
  /\ constraint = List(<<Dict(<<Entry("a", int)>>), int>>)
  /\ result.cls = "ListLikeConstraint"
  /\ ChainsAgree(constraint, List(<<I>>))

SchemeCalled == op = "Scheme.simplify_constraint"

\* a list or a tuple of type tags, Countless of a type tag and Multiple of a
\* type tag with numbers that are not negative
SchemePattern(c) ==
  /\ IsListLike(c)
  /\ \A i \in DOMAIN c.e :
       \/ c.e[i].k = "type"
       \/ c.e[i].k = "ct" /\ c.e[i].c.k = "type" /\ c.e[i].al >= 0
       \/ c.e[i].k = "mt" /\ c.e[i].c.k = "type" /\ c.e[i].n >= 0

\* C30: for every valid pattern of type tags, Countless and Multiple the
\* Scheme simplify_constraint returns the normal form of its docstring:
\* Multiple expanded, each Countless merged with the adjacent equal type
\* tags and the adjacent Countless of the same type (at_least summed), and
\* no element dropped or duplicated otherwise.
C30_SchemeSimplifyNormalForm ==
  (SchemeCalled /\ SchemePattern(constraint)) =>
     /\ IsListLike(result)
     /\ result.k = constraint.k
     /\ result.e = MergedGroups(expand_mt(constraint.e), 1)

\* the followed call of ListLikeConstraint.static_validate is at its loop
\* or has returned
Matching == frame.pc # "none" /\ frame.call = "match"

\* the followed call of simplify_constraint is at the loop of
\* get_ct_group_info or has returned
Scanning == frame.pc # "none" /\ frame.call = "scan"

\* the followed calls return what the calls taken as a whole return
StepsAgree ==
  /\ (Matching /\ frame.pc = "returned") =>
        result = ListLikeConstraint_static_validate(constraint, value)
  /\ (Scanning /\ frame.pc = "returned") =>
        result = simplify_constraint(constraint)
  /\ (Scanning /\ op = "matching") => ~Raised(simplify_constraint(constraint))

\* C25: at the start of each slot i of the matcher, i + offset is the
\* number of the value positions that the slots before it consumed (one for
\* a fixed element, k for a Countless that matched k values): the positions
\* consumed are exactly 0 .. i + offset - 1, so the next slot is matched
\* against the position right after the last run, 0 <= i + offset <=
\* len(value), and every index at which value is read lies in
\* 0 .. len(value) - 1.
C25_OffsetInvariant ==
  (Matching /\ IsListLike(value)) =>
     /\ frame.reads \subseteq 0..(Len(value.e) - 1)
     /\ frame.pc = "slot" =>
          /\ frame.matched = 0..(frame.i + frame.offset - 1)
          /\ frame.i + frame.offset = Cardinality(frame.matched)
          /\ 0 <= frame.i + frame.offset
          /\ frame.i + frame.offset <= Len(value.e)

\* the slot after a Countless that matched two values, which a fixed
\* element came before
C25_Witness ==
  /\ Matching /\ frame.pc = "slot"
  /\ constraint = List(<<str, Countless(int, 1)>>)
  /\ value = List(<<S, I, I>>)
  /\ frame.i = 2 /\ frame.offset = 1
  /\ frame.matched = {0, 1, 2}

\* the sequence has no element twice
NoDuplicates(q) == \A a, b \in DOMAIN q : q[a] = q[b] => a = b

\* the while loop of a Countless that started at value_i = loop_from has
\* made at most len(value) - loop_from + 1 turns
LoopBounded ==
  (Matching /\ IsListLike(value)) =>
     frame.turns <= Len(value.e) - frame.loop_from + 1

\* no Countless of the expanded pattern lies in two groups, the loop makes
\* at most one turn for each, and when the scan is over each lies in one
GroupedOnce ==
  Scanning =>
     /\ NoDuplicates(frame.grouped)
     /\ frame.turns <= Len(CountlessIn(frame.expanded, 0, Len(frame.expanded)))
     /\ (frame.pc = "returned" /\ IsListLike(result)) =>
          {frame.grouped[a] : a \in DOMAIN frame.grouped}
            = {frame.ct_indexes[a] : a \in DOMAIN frame.ct_indexes}
                \cup {g \in 0..(Len(frame.expanded) - 1) :
                        TypeOf(frame.expanded[g + 1]) = "Countless"}

\* C28: for every well-formed constraint and every value simplify_constraint
\* and static_validate terminate: the loop of a Countless that starts at
\* value_i = i + offset ends after at most len(value) - (i + offset) + 1
\* turns, and the group scan of the simplification visits every Countless
\* of the expanded pattern in exactly one group and then stops.
C28_CallsTerminate ==
  /\ [](LoopBounded /\ GroupedOnce)
  /\ <>(frame.pc = "returned")

\* a Countless loop that ran to the end of the value: three turns that
\* matched and the one that stopped it
C28_Witness ==
  /\ Matching /\ frame.pc = "returned"
  /\ constraint = List(<<Countless(int, 1)>>)
  /\ value = List(<<I, I, I>>)
  /\ frame.turns = 4 /\ frame.loop_from = 0
  /\ Accepted(result)

\* import_setting has returned
ImportReturned ==
  op = "import_setting" /\ frame.call = "import" /\ frame.pc = "returned"
    /\ ~Raised(result)

\* C29: import_setting returns a list of one or two elements, the first
\* being the configure function of the settings module and the second, if
\* there is one, its control function, or it does not return: when the
\* settings file is missing or the module has no function configure, the
\* error is reported through err and the process exits.
C29_ConfigureOrExit ==
  (op = "import_setting" /\ frame.call = "import") =>
     /\ ImportReturned =>
          /\ result.k = "list"
          /\ Len(result.e) \in {1, 2}
          /\ result.e[1] = frame.configure
          /\ is_function_attribute(frame.configure)
          /\ Len(result.e) = 2 =>
               (result.e[2] = frame.control
                  /\ is_function_attribute(frame.control))
     /\ (frame.file = "missing" \/ (frame.file = "loads"
                                      /\ ~is_function_attribute(frame.configure)))
          => /\ result = [k |-> "raise", exc |-> "SystemExit"]
             /\ frame.pc = "exited"
             /\ Len(frame.printed) = 1

\* the module holds a class named configure and a function named control:
\* the process exits
C29_Witness ==
  /\ op = "import_setting" /\ frame.call = "import"
  /\ frame.file = "loads"
  /\ frame.configure = Type("configure")
  /\ frame.control = Fn("control", 0)
  /\ frame.pc = "exited"
  /\ frame.printed = <<"configure_not_found">>

====
